---- MODULE Spec2Model ----
(***************************************************************************)
(* Model of server.js: the /convert handler's removeNullsAndEmpty and      *)
(* shortenKeys passes over a parsed JSON value.                            *)
(*                                                                         *)
(* A Value is a record [t, s, kids]: t is "null", "str", "arr" or "obj";   *)
(* s is the text of a string scalar; kids is the sequence of [k, v]        *)
(* members (k is the property name of an object entry, "" for an array     *)
(* element), in Object.entries order.  A key table (keyMap) is a function  *)
(* from original keys to aliases.                                          *)
(***************************************************************************)
EXTENDS Integers, Sequences, FiniteSets, TLC

VARIABLES
    common,   \* the module's COMMON_KEY_MAPPINGS object
    pc,       \* "idle", "enter", "walk", "done", or "held" (a caller holds a table)
    data,     \* the parsed request body
    obj,      \* the value passed to shortenKeys (the handler's dataNoNulls)
    keyMap,   \* the table passed to shortenKeys
    seed,     \* keyMap as it was when the traversal began
    todo,     \* the keys the traversal has still to meet, in order
    used,     \* keyMap[key] as read at each key met so far
    result,   \* the value shortenKeys returned
    reuses,   \* how many times the table in hand was passed in again
    served    \* whether a request was answered before

vars == <<common, pc, data, obj, keyMap, seed, todo, used, result, reuses, served>>

\* ------------------------------------------------------------ bounds
\* Largest number of nodes (scalars, arrays, objects) of a request body.
MaxNodes == 3
\* How many times a caller passes the table of a finished call in again.
MaxReuse == 1

\* ------------------------------------------------------------ values
Null == [t |-> "null", s |-> "", kids |-> <<>>]
Str(s) == [t |-> "str", s |-> s, kids |-> <<>>]
Arr(kids) == [t |-> "arr", s |-> "", kids |-> kids]
Obj(kids) == [t |-> "obj", s |-> "", kids |-> kids]
Member(k, v) == [k |-> k, v |-> v]

\* Property names a request body is built from.  None of them is a name that
\* every object inherits (constructor, toString, ...) and none is an array
\* index.
Keys == {"name", "Name", "", "t", "T", "aeiou", "Carts", "LicenseValidator", "ModelName"}

\* null and strings; a number or a boolean is treated as the string "x" is.
Scalars == {Null, Str(""), Str("x")}

RECURSIVE MemberLists(_, _, _)
\* Every sequence of members whose values have n nodes in all, bySize[a]
\* being the shapes of a nodes.  A shape is a value whose property names are
\* all still "?".
MemberLists(n, keyed, bySize) ==
    IF n = 0 THEN {<<>>}
    ELSE UNION {
            LET rests == MemberLists(n - a, keyed, bySize)
            IN  { <<Member(IF keyed THEN "?" ELSE "", v)>> \o rest : v \in bySize[a], rest \in rests }
            : a \in 1..n }

RECURSIVE ShapesBySize(_)
\* <<the shapes of 1 node, the shapes of 2 nodes, ..., the shapes of n nodes>>
ShapesBySize(n) ==
    IF n = 1 THEN << Scalars \cup {Arr(<<>>), Obj(<<>>)} >>
    ELSE LET smaller == ShapesBySize(n - 1)
         IN  Append(smaller,
                    { Arr(ms) : ms \in MemberLists(n - 1, FALSE, smaller) }
                    \cup { Obj(ms) : ms \in MemberLists(n - 1, TRUE, smaller) })

Shapes == UNION { ShapesBySize(MaxNodes)[n] : n \in 1..MaxNodes }

RECURSIVE CountKeys(_)
RECURSIVE CountMemberKeys(_, _)
CountMemberKeys(kids, keyed) ==
    IF kids = <<>> THEN 0
    ELSE (IF keyed THEN 1 ELSE 0) + CountKeys(Head(kids).v) + CountMemberKeys(Tail(kids), keyed)
\* The number of property names in a value.
CountKeys(value) == CountMemberKeys(value.kids, value.t = "obj")

RECURSIVE Named(_, _)
RECURSIVE NamedMembers(_, _, _)
NamedMembers(kids, keyed, names) ==
    IF kids = <<>> THEN <<>>
    ELSE LET own == IF keyed THEN 1 ELSE 0
             inside == CountKeys(Head(kids).v)
         IN  <<Member(IF keyed THEN Head(names) ELSE "",
                      Named(Head(kids).v, SubSeq(names, own + 1, own + inside)))>>
             \o NamedMembers(Tail(kids), keyed, SubSeq(names, own + inside + 1, Len(names)))
\* The shape with its property names taken from names, in document order.
Named(shape, names) ==
    IF shape.kids = <<>> THEN shape
    ELSE [shape EXCEPT !.kids = NamedMembers(shape.kids, shape.t = "obj", names)]

RECURSIVE WellFormed(_)
\* JSON.parse gives every object distinct property names.
WellFormed(value) ==
    /\ value.t = "obj" =>
         \A i, j \in 1..Len(value.kids) : value.kids[i].k = value.kids[j].k => i = j
    /\ \A i \in 1..Len(value.kids) : WellFormed(value.kids[i].v)

\* ------------------------------------------------------------ strings
Vowels == {"a", "e", "i", "o", "u", "A", "E", "I", "O", "U"}

LowerOf ==
    ("A" :> "a") @@ ("B" :> "b") @@ ("C" :> "c") @@ ("D" :> "d") @@ ("E" :> "e")
    @@ ("F" :> "f") @@ ("G" :> "g") @@ ("H" :> "h") @@ ("I" :> "i") @@ ("J" :> "j")
    @@ ("K" :> "k") @@ ("L" :> "l") @@ ("M" :> "m") @@ ("N" :> "n") @@ ("O" :> "o")
    @@ ("P" :> "p") @@ ("Q" :> "q") @@ ("R" :> "r") @@ ("S" :> "s") @@ ("T" :> "t")
    @@ ("U" :> "u") @@ ("V" :> "v") @@ ("W" :> "w") @@ ("X" :> "x") @@ ("Y" :> "y")
    @@ ("Z" :> "z")

RECURSIVE StripVowels(_)
\* key.replace(/[aeiou]/gi, '')
StripVowels(str) ==
    IF str = "" THEN ""
    ELSE (IF Head(str) \in Vowels THEN "" ELSE Head(str)) \o StripVowels(Tail(str))

RECURSIVE ToLowerCase(_)
ToLowerCase(str) ==
    IF str = "" THEN ""
    ELSE (IF Head(str) \in DOMAIN LowerOf THEN LowerOf[Head(str)] ELSE Head(str))
         \o ToLowerCase(Tail(str))

\* str.substring(0, n)
Substring(str, n) == IF Len(str) <= n THEN str ELSE SubSeq(str, 1, n)

\* ------------------------------------------------------------ tables
EmptyMap == [k \in {} |-> ""]

\* Object.values(keyMap)
ObjectValues(m) == { m[k] : k \in DOMAIN m }

\* keyMap[key] = alias
Put(m, key, alias) == [k \in DOMAIN m \cup {key} |-> IF k = key THEN alias ELSE m[k]]

\* Object.assign(target, source)
ObjectAssign(target, source) ==
    [k \in DOMAIN target \cup DOMAIN source |-> IF k \in DOMAIN source THEN source[k] ELSE target[k]]

COMMON_KEY_MAPPINGS ==
    ("LicenseValidator" :> "lv")
    @@ ("LicenseType" :> "lt")
    @@ ("CopilotUnlimited" :> "cu")
    @@ ("ModelName" :> "mn")
    @@ ("SubTag" :> "st")
    @@ ("LoopCount" :> "lc")
    @@ ("RaiPolicyId" :> "rpi")
    @@ ("llmLicenseType" :> "llt")
    @@ ("feature" :> "ft")
    @@ ("role" :> "r")
    @@ ("content" :> "c")
    @@ ("system" :> "sys")
    @@ ("user" :> "u")
    @@ ("assistant" :> "a")
    @@ ("developer" :> "dev")
    @@ ("tool_calls" :> "tc")
    @@ ("function" :> "fn")
    @@ ("arguments" :> "arg")
    @@ ("name" :> "n")
    @@ ("type" :> "t")
    @@ ("reference_id" :> "rid")
    @@ ("snippet" :> "snp")
    @@ ("subject" :> "s")
    @@ ("from" :> "f")
    @@ ("to" :> "t")
    @@ ("participants" :> "p")
    @@ ("Name" :> "n")
    @@ ("Address" :> "a")
    @@ ("Email" :> "e")
    @@ ("message" :> "m")
    @@ ("timestamp" :> "ts")
    @@ ("dateTimeReceived" :> "dtr")
    @@ ("dateTimeSent" :> "dts")
    @@ ("isRead" :> "rd")

\* ------------------------------------------------------------ removeNullsAndEmpty
\* An object property is copied when its value is none of null, '', [] and {}.
Kept(value) ==
    /\ value.t # "null"
    /\ ~(value.t = "str" /\ value.s = "")
    /\ ~(value.t = "arr" /\ Len(value.kids) = 0)
    /\ ~(value.t \in {"arr", "obj"} /\ Len(value.kids) = 0)

RECURSIVE removeNullsAndEmpty(_)
RECURSIVE CleanArray(_)
RECURSIVE CleanObject(_)
\* obj.map(removeNullsAndEmpty).filter(v => v !== null && v !== undefined)
CleanArray(kids) ==
    IF kids = <<>> THEN <<>>
    ELSE LET v == removeNullsAndEmpty(Head(kids).v)
         IN  (IF v.t # "null" THEN <<Member("", v)>> ELSE <<>>) \o CleanArray(Tail(kids))
CleanObject(kids) ==
    IF kids = <<>> THEN <<>>
    ELSE (IF Kept(Head(kids).v)
          THEN <<Member(Head(kids).k, removeNullsAndEmpty(Head(kids).v))>>
          ELSE <<>>) \o CleanObject(Tail(kids))
removeNullsAndEmpty(value) ==
    CASE value.t = "arr" -> Arr(CleanArray(value.kids))
      [] value.t = "obj" -> Obj(CleanObject(value.kids))
      [] OTHER -> value

\* ------------------------------------------------------------ shortenKeys
\* !keyMap[key]: the key has no alias yet, or its alias is the empty string.
NoAlias(m, key) == key \notin DOMAIN m \/ m[key] = ""

\* key.replace(/[aeiou]/gi, '').substring(0, 3).toLowerCase(), or, when that
\* is empty, key.substring(0, 2).toLowerCase()
Short(key) ==
    LET short == ToLowerCase(Substring(StripVowels(key), 3))
    IN  IF short = "" THEN ToLowerCase(Substring(key, 2)) ELSE short

RECURSIVE Probe(_, _, _, _)
\* while (Object.values(keyMap).includes(candidate)) { candidate = short + counter; counter++ }
Probe(m, short, candidate, counter) ==
    IF candidate \in ObjectValues(m)
    THEN Probe(m, short, short \o ToString(counter), counter + 1)
    ELSE candidate

\* The suffixes counted from 0 instead of 1.
Candidate_FromZero(m, key) == Probe(m, Short(key), Short(key), 0)

\* The alias generated for a key that has none.
Candidate(m, key) == Probe(m, Short(key), Short(key), 1)

\* One iteration of the for loop up to the read of keyMap[key].
VisitKey(m, key) == IF NoAlias(m, key) THEN Put(m, key, Candidate(m, key)) ELSE m

\* The common mappings never loaded.
Seeded_Never(m, mappings) == m

\* The table at the start of a call: Object.assign(keyMap, COMMON_KEY_MAPPINGS)
\* when it has no keys.
Seeded(m, mappings) == IF DOMAIN m = {} THEN ObjectAssign(m, mappings) ELSE m

\* Had keyMap been made the module's own object, every entry written to
\* keyMap would show in COMMON_KEY_MAPPINGS.
CommonAfterWrite_Aliased(mappings, m) == m

\* The module's COMMON_KEY_MAPPINGS object after a write to keyMap.
\* Object.assign copies the entries of its source into the target, so keyMap
\* stays an object of its own and the source is left as it was.
CommonAfterWrite(mappings, m) == mappings

RECURSIVE KeysInOrder(_)
RECURSIVE KeysOfMembers(_, _)
\* The keys of a value in the order the recursion meets them: an entry's key,
\* then the keys inside its value, then the next entry.
KeysOfMembers(kids, keyed) ==
    IF kids = <<>> THEN <<>>
    ELSE (IF keyed THEN <<Head(kids).k>> ELSE <<>>)
         \o KeysInOrder(Head(kids).v) \o KeysOfMembers(Tail(kids), keyed)
KeysInOrder(value) ==
    CASE value.t = "arr" -> KeysOfMembers(value.kids, FALSE)
      [] value.t = "obj" -> KeysOfMembers(value.kids, TRUE)
      [] OTHER -> <<>>

Digits == {"0", "1", "2", "3", "4", "5", "6", "7", "8", "9"}

RECURSIVE AllDigits(_)
AllDigits(str) == str = "" \/ (Head(str) \in Digits /\ AllDigits(Tail(str)))

\* A property name that is an array index (a canonical decimal number): an
\* object enumerates these first, in ascending order.
IsIndex(name) == name # "" /\ AllDigits(name) /\ (Len(name) = 1 \/ Head(name) # "0")

\* name1 < name2 as numbers, for two array indices
IndexLess(name1, name2) ==
    \/ Len(name1) < Len(name2)
    \/ /\ Len(name1) = Len(name2)
       /\ \E i \in 1..Len(name1) :
            /\ SubSeq(name1, 1, i - 1) = SubSeq(name2, 1, i - 1)
            /\ \E d1, d2 \in 0..9 :
                 /\ ToString(d1) = SubSeq(name1, i, i)
                 /\ ToString(d2) = SubSeq(name2, i, i)
                 /\ d1 < d2

\* result[name] = value: an existing property keeps its place and takes the
\* new value; a new index goes among the indices; any other name goes last.
Assign(kids, name, value) ==
    IF \E i \in 1..Len(kids) : kids[i].k = name
    THEN [i \in 1..Len(kids) |-> IF kids[i].k = name THEN Member(name, value) ELSE kids[i]]
    ELSE IF IsIndex(name)
    THEN LET before == Cardinality({ i \in 1..Len(kids) :
                            IsIndex(kids[i].k) /\ IndexLess(kids[i].k, name) })
         IN  SubSeq(kids, 1, before) \o <<Member(name, value)>>
                 \o SubSeq(kids, before + 1, Len(kids))
    ELSE Append(kids, Member(name, value))

RECURSIVE Build(_, _)
RECURSIVE BuildMembers(_, _, _, _)
\* The members of the returned array or object, given the aliases read at
\* result[keyMap[key]] in the order the recursion read them; rest is what is
\* left for the values that follow.
BuildMembers(kids, keyed, acc, aliases) ==
    IF kids = <<>> THEN [kids |-> acc, rest |-> aliases]
    ELSE IF keyed
    THEN LET sub == Build(Head(kids).v, Tail(aliases))
         IN  BuildMembers(Tail(kids), keyed, Assign(acc, Head(aliases), sub.v), sub.rest)
    ELSE LET sub == Build(Head(kids).v, aliases)
         IN  BuildMembers(Tail(kids), keyed, Append(acc, Member("", sub.v)), sub.rest)
\* The value shortenKeys returns.
Build(value, aliases) ==
    CASE value.t = "arr" ->
            LET r == BuildMembers(value.kids, FALSE, <<>>, aliases)
            IN  [v |-> Arr(r.kids), rest |-> r.rest]
      [] value.t = "obj" ->
            LET r == BuildMembers(value.kids, TRUE, <<>>, aliases)
            IN  [v |-> Obj(r.kids), rest |-> r.rest]
      [] OTHER -> [v |-> value, rest |-> aliases]

RECURSIVE shortenKeys(_, _, _)
RECURSIVE ShortenMembers(_, _, _, _, _)
\* The members of the result and the table after the members of one array
\* (map) or object (for loop) are done.
ShortenMembers(kids, keyed, acc, m, mappings) ==
    IF kids = <<>> THEN [result |-> acc, keyMap |-> m]
    ELSE IF keyed
    THEN LET m1 == VisitKey(m, Head(kids).k)
             sub == shortenKeys(Head(kids).v, m1, mappings)
         IN  ShortenMembers(Tail(kids), keyed, Assign(acc, m1[Head(kids).k], sub.result),
                            sub.keyMap, mappings)
    ELSE LET sub == shortenKeys(Head(kids).v, m, mappings)
         IN  ShortenMembers(Tail(kids), keyed, Append(acc, Member("", sub.result)),
                            sub.keyMap, mappings)
\* shortenKeys(obj, keyMap) as one function of its arguments and of the common
\* mappings: the value returned and the table left behind.
shortenKeys(value, m0, mappings) ==
    LET m == Seeded(m0, mappings)
    IN  CASE value.t = "arr" ->
                LET r == ShortenMembers(value.kids, FALSE, <<>>, m, mappings)
                IN  [result |-> Arr(r.result), keyMap |-> r.keyMap]
          [] value.t = "obj" ->
                LET r == ShortenMembers(value.kids, TRUE, <<>>, m, mappings)
                IN  [result |-> Obj(r.result), keyMap |-> r.keyMap]
          [] OTHER -> [result |-> value, keyMap |-> m]

\* ------------------------------------------------------------ the program
Init ==
    /\ common = COMMON_KEY_MAPPINGS
    /\ pc = "idle"
    /\ data = Null
    /\ obj = Null
    /\ keyMap = EmptyMap
    /\ seed = EmptyMap
    /\ todo = <<>>
    /\ used = <<>>
    /\ result = Null
    /\ reuses = 0
    /\ served = FALSE

\* app.post('/convert'): the body is parsed, stripped of nulls and empties, and
\* handed to shortenKeys with a new, empty keyMap.
Convert(input) ==
    /\ pc = "idle"
    /\ data' = input
    /\ obj' = removeNullsAndEmpty(input)
    /\ keyMap' = EmptyMap
    /\ seed' = EmptyMap
    /\ todo' = <<>>
    /\ used' = <<>>
    /\ result' = Null
    /\ pc' = "enter"
    /\ UNCHANGED <<common, reuses, served>>

\* shortenKeys is entered: an empty table takes the common mappings.  (Every
\* nested call repeats the test; the table is never empty again.)
Enter ==
    /\ pc = "enter"
    /\ keyMap' = Seeded(keyMap, common)
    /\ common' = CommonAfterWrite(common, keyMap')
    /\ seed' = keyMap'
    /\ todo' = KeysInOrder(obj)
    /\ pc' = "walk"
    /\ UNCHANGED <<data, obj, used, result, reuses, served>>

\* One iteration of the for loop: the key gets an alias if it has none, and
\* keyMap[key] is read as the property name of the result.
Visit ==
    /\ pc = "walk"
    /\ todo # <<>>
    /\ keyMap' = VisitKey(keyMap, Head(todo))
    /\ common' = CommonAfterWrite(common, keyMap')
    /\ used' = Append(used, keyMap'[Head(todo)])
    /\ todo' = Tail(todo)
    /\ UNCHANGED <<pc, data, obj, seed, result, reuses, served>>

\* The outermost call returns.
Return ==
    /\ pc = "walk"
    /\ todo = <<>>
    /\ result' = Build(obj, used).v
    /\ pc' = "done"
    /\ UNCHANGED <<common, data, obj, keyMap, seed, todo, used, reuses, served>>

\* res.json(...): the response is sent and the handler's locals are dropped.
Respond ==
    /\ pc = "done"
    /\ pc' = "idle"
    /\ data' = Null
    /\ obj' = Null
    /\ keyMap' = EmptyMap
    /\ seed' = EmptyMap
    /\ todo' = <<>>
    /\ used' = <<>>
    /\ result' = Null
    /\ reuses' = 0
    /\ served' = TRUE
    /\ UNCHANGED common

\* A caller of shortenKeys keeps the table of the finished call ...
Keep ==
    /\ pc = "done"
    /\ reuses < MaxReuse
    /\ pc' = "held"
    /\ data' = Null
    /\ obj' = Null
    /\ seed' = EmptyMap
    /\ todo' = <<>>
    /\ used' = <<>>
    /\ result' = Null
    /\ UNCHANGED <<common, keyMap, reuses, served>>

\* ... and passes it in again with another value: shortenKeys(value, keyMap).
Reuse(value) ==
    /\ pc = "held"
    /\ data' = value
    /\ obj' = value
    /\ reuses' = reuses + 1
    /\ pc' = "enter"
    /\ UNCHANGED <<common, keyMap, seed, todo, used, result, served>>

Next ==
    \/ /\ pc = "idle"
       /\ \E shape \in Shapes : \E names \in [1..CountKeys(shape) -> Keys] :
            WellFormed(Named(shape, names)) /\ Convert(Named(shape, names))
    \/ Enter
    \/ Visit
    \/ Return
    \/ Respond

Spec == Init /\ [][Next]_vars

NextReuse ==
    \/ Next
    \/ Keep
    \/ /\ pc = "held"
       /\ \E shape \in Shapes : \E names \in [1..CountKeys(shape) -> Keys] :
            WellFormed(Named(shape, names)) /\ Reuse(Named(shape, names))

SpecReuse == Init /\ [][NextReuse]_vars

\* ------------------------------------------------------------ properties
\* A shortenKeys call is running or has returned.
InCall == pc \in {"walk", "done"}

\* The call was started by the handler, with an empty table.
FromHandler == reuses = 0

\* The keys met so far, in order; used[i] is what Visited[i] was rewritten to.
Visited == SubSeq(KeysInOrder(obj), 1, Len(used))

KeySet(value) == { value.kids[i].k : i \in 1..Len(value.kids) }

\* C1: alias uniqueness.  During a call that starts from the handler's empty
\* table no two distinct keys of the table have the same alias, and no two
\* distinct keys met are rewritten to the same alias.
C1_AliasUniqueness ==
    (InCall /\ FromHandler) =>
        /\ \A k1, k2 \in DOMAIN keyMap : k1 # k2 => keyMap[k1] # keyMap[k2]
        /\ \A i, j \in 1..Len(used) : Visited[i] # Visited[j] => used[i] # used[j]

RECURSIVE SameShape(_, _)
\* The output has the shape of the input: the same kind of value, a scalar
\* unchanged, an array of the same length in the same order, an object of as
\* many entries, each the transform of one input entry.
SameShape(in, out) ==
    /\ in.t = out.t
    /\ in.t \in {"null", "str"} => in = out
    /\ Len(in.kids) = Len(out.kids)
    /\ in.t = "arr" => \A i \in 1..Len(in.kids) : SameShape(in.kids[i].v, out.kids[i].v)
    /\ in.t = "obj" =>
         /\ \A i \in 1..Len(in.kids) : \E j \in 1..Len(out.kids) :
                SameShape(in.kids[i].v, out.kids[j].v)
         /\ \A j \in 1..Len(out.kids) : \E i \in 1..Len(in.kids) :
                SameShape(in.kids[i].v, out.kids[j].v)

\* C2: structural preservation.  The value shortenKeys returns has the shape
\* of its input; only property names differ.
C2_StructuralPreservation == pc = "done" => SameShape(obj, result)

\* The original keys the table maps to an alias: the table read in reverse.
Originals(m, alias) == { k \in DOMAIN m : m[k] = alias }

RECURSIVE RoundTrip(_, _, _)
\* Reading the keys of every output object back through the table gives the
\* keys of the input object it came from.
RoundTrip(in, out, m) ==
    /\ in.t = out.t
    /\ Len(in.kids) = Len(out.kids)
    /\ in.t = "obj" => UNION { Originals(m, a) : a \in KeySet(out) } = KeySet(in)
    /\ in.t = "arr" => \A i \in 1..Len(in.kids) : RoundTrip(in.kids[i].v, out.kids[i].v, m)
    /\ in.t = "obj" =>
         \A i \in 1..Len(in.kids) : \E j \in 1..Len(out.kids) :
            /\ in.kids[i].k \in Originals(m, out.kids[j].k)
            /\ RoundTrip(in.kids[i].v, out.kids[j].v, m)

\* C3: round trip.  After the call returns, the final table read in reverse
\* turns the keys of every output object into the keys of its input object.
C3_RoundTrip == pc = "done" => RoundTrip(obj, result, keyMap)

\* C4: key reuse.  Two occurrences of the same key in one traversal are
\* rewritten to the same alias.
C4_KeyReuse ==
    InCall => \A i, j \in 1..Len(used) : Visited[i] = Visited[j] => used[i] = used[j]

\* C5: seed precedence.  A key of the table the call started with (the
\* caller's non-empty table, or the common mappings) keeps its alias in the
\* table and is rewritten to it.
C5_SeedPrecedence ==
    InCall =>
        \A k \in DOMAIN seed :
            /\ k \in DOMAIN keyMap /\ keyMap[k] = seed[k]
            /\ \A i \in 1..Len(used) : Visited[i] = k => used[i] = seed[k]

\* The example of the specification, its scalars written "x".
ExampleInput ==
    Obj(<<Member("LicenseValidator", Str("x")), Member("ModelName", Str("x"))>>)

C7_Frame ==
    /\ common = COMMON_KEY_MAPPINGS
    /\ (pc \in {"enter", "walk", "done"} /\ FromHandler) => obj = removeNullsAndEmpty(data)
    /\ (pc = "done" /\ FromHandler) =>
         [result |-> result, keyMap |-> keyMap] = shortenKeys(obj, EmptyMap, COMMON_KEY_MAPPINGS)

\* C7: a later request has returned, and its table has entries of its own.
C7_Witness ==
    /\ pc = "done" /\ FromHandler /\ served
    /\ DOMAIN keyMap # DOMAIN common
    /\ KeysInOrder(obj) # <<>>

RECURSIVE NoEmpties(_)
Removable(value) ==
    \/ value.t = "null"
    \/ value.t = "str" /\ value.s = ""
    \/ value.t \in {"arr", "obj"} /\ value.kids = <<>>
\* No property value and no array element at any depth is null, '', [] or {}.
NoEmpties(value) ==
    \A i \in 1..Len(value.kids) :
        ~Removable(value.kids[i].v) /\ NoEmpties(value.kids[i].v)

\* C8: the result of removeNullsAndEmpty holds no null, empty string, empty
\* array or empty object at any depth.
C8_NothingEmptyLeft == (pc = "enter" /\ FromHandler) => NoEmpties(obj)

\* C9: append-only table.  While a call runs, an entry of the table is never
\* removed and never changed.
C9_AppendOnly ==
    [][pc = "walk" =>
         \A k \in DOMAIN keyMap : k \in DOMAIN keyMap' /\ keyMap'[k] = keyMap[k]]_vars

RECURSIVE Consonants(_, _)
\* The first n characters of str that are not vowels.
Consonants(str, n) ==
    IF n = 0 \/ str = "" THEN ""
    ELSE IF Head(str) \in Vowels THEN Consonants(Tail(str), n)
    ELSE Head(str) \o Consonants(Tail(str), n - 1)

\* The root of C10: the first 3 consonants, lower-cased, or else the first 2
\* characters of the key, lower-cased.
Root(key) ==
    IF Consonants(key, 3) # "" THEN ToLowerCase(Consonants(key, 3))
    ELSE ToLowerCase(SubSeq(key, 1, IF Len(key) < 2 THEN Len(key) ELSE 2))

\* The alias of C10 for a key given the aliases in use.
LeastFree(root, taken) ==
    IF root \notin taken THEN root
    ELSE LET n == CHOOSE n \in 1..(Cardinality(taken) + 1) :
                    /\ (root \o ToString(n)) \notin taken
                    /\ \A m \in 1..(n - 1) : (root \o ToString(m)) \in taken
         IN  root \o ToString(n)

====
